---- MODULE Spec2Model ----
(***************************************************************************)
(* A model of isaacsim.storage.native file_utils.py (path joining and the  *)
(* path predicates, the depth-bounded USD file discovery, its thread-pool  *)
(* wrapper, the reference count, and the missing-reference walk over the   *)
(* layer graph) and of the isaacsim.core.throttling extension.             *)
(*                                                                         *)
(* Paths are TLA+ strings; the Python string operations are modelled       *)
(* character by character with Len, SubSeq and \o.  os.path is the POSIX   *)
(* flavour (posixpath).                                                    *)
(***************************************************************************)
EXTENDS Integers, Sequences, FiniteSets, TLC

VARIABLES
    \* path_join applied to one pair of arguments
    jbase, jname, jout, jpc,
    \* find_filtered_files: arguments, locals, and what the run has observed
    fs, abs_paths, max_depth, filepath_excludes, filter_patterns, match_all,
    remaining_folders, usd_files, pc, listed, met,
    \* find_filtered_files_async: the awaiting coroutine and its executor
    acall, apc, loop_ticks, listers, cancel_seen, pops_at_cancel, areturn,
    \* layer_has_missing_references
    layers, layer_identifier, queue, accessed_layers, lpc, lret, opened, lsteps,
    \* two find_filtered_files invocations in flight at once: each one's
    \* arguments, locals and position
    calls,
    \* count_asset_references: argument, the locals of the find_files_recursive
    \* call it makes, its own items, and its position
    base_path, sub_remaining, sub_files, items, cpc,
    \* is_local_path, is_absolute_path, path_relative applied to arguments
    ppath, pstart, pfn, pout, ppc,
    \* the throttling extension: the settings store, the loop runner, the
    \* timeline and its event stream, the fields of the Extension object
    settings, loop_runner, loop_manual_mode, is_playing, pending,
    frame_count, waiting_for_async_reenable, frame_update_subscription,
    timeline_event_sub,
    \* what a run of the extension has seen: the last PLAY/STOP/PAUSE event
    \* handled, the frame updates since the timeline last played, and whether
    \* the step just taken re-enabled async rendering
    last_handled, frames_since_play, reenabled,
    \* and: a PLAY was handled with the async toggle on and the timeline
    \* playing and both have stayed so with no STOP or PAUSE handled since;
    \* whether the step just taken was the frame update at which the count
    \* reached the delay; the frame updates since the counting last started
    play_window, expired, frames_waited

joinVars  == <<jbase, jname, jout, jpc>>
findVars  == <<fs, abs_paths, max_depth, filepath_excludes, filter_patterns,
               match_all, remaining_folders, usd_files, pc, listed, met>>
asyncVars == <<acall, apc, loop_ticks, listers, cancel_seen, pops_at_cancel, areturn>>
layerVars == <<layers, layer_identifier, queue, accessed_layers, lpc, lret, opened,
               lsteps>>
pairVars  == <<calls>>
countVars == <<base_path, sub_remaining, sub_files, items, cpc>>
pathVars  == <<ppath, pstart, pfn, pout, ppc>>
throttleVars == <<settings, loop_runner, loop_manual_mode, is_playing, pending,
                  frame_count, waiting_for_async_reenable, frame_update_subscription,
                  timeline_event_sub, last_handled, frames_since_play, reenabled,
                  play_window, expired, frames_waited>>
extVars   == <<pairVars, countVars, pathVars, throttleVars>>
vars      == <<joinVars, findVars, asyncVars, layerVars, extVars>>

----------------------------------------------------------------------------
(* Python str operations *)

Max(S) == CHOOSE m \in S : \A x \in S : x <= m

\* s.startswith(p)
StartsWith(s, p) == Len(s) >= Len(p) /\ SubSeq(s, 1, Len(p)) = p

\* s.endswith(p)
EndsWith(s, p) == Len(s) >= Len(p) /\ SubSeq(s, Len(s) - Len(p) + 1, Len(s)) = p

\* s[n:]
DropFirst(s, n) == SubSeq(s, n + 1, Len(s))

\* s[:-1]
DropLast(s) == SubSeq(s, 1, Len(s) - 1)

\* p in s
Contains(s, p) == \E i \in 1..(Len(s) - Len(p) + 1) : SubSeq(s, i, i + Len(p) - 1) = p

\* s.rfind(c) + 1 for a one-character c: the 1-based place of the last c, 0 if none
RFind(s, c) ==
    LET I == {i \in 1..Len(s) : SubSeq(s, i, i) = c}
    IN  IF I = {} THEN 0 ELSE Max(I)

\* s == "/" * len(s)
AllSlashes(s) == \A i \in 1..Len(s) : SubSeq(s, i, i) = "/"

RECURSIVE RStripSlash(_)
\* s.rstrip("/")
RStripSlash(s) == IF EndsWith(s, "/") THEN RStripSlash(DropLast(s)) ELSE s

----------------------------------------------------------------------------
(* os.path (posixpath) *)

\* os.path.dirname(p)
os_path_dirname(p) ==
    LET head == SubSeq(p, 1, RFind(p, "/"))
    IN  IF head # "" /\ ~AllSlashes(head) THEN RStripSlash(head) ELSE head

\* os.path.join(a, b) for two components
os_path_join(a, b) ==
    IF StartsWith(b, "/") THEN b
    ELSE IF a = "" \/ EndsWith(a, "/") THEN a \o b
    ELSE a \o "/" \o b

\* os.path.splitext(p)[1]
os_path_splitext_ext(p) ==
    LET sepIndex == RFind(p, "/")
        dotIndex == RFind(p, ".")
    IN  IF dotIndex > sepIndex
           /\ \E k \in (sepIndex + 1)..(dotIndex - 1) : SubSeq(p, k, k) # "."
        THEN SubSeq(p, dotIndex, Len(p))
        ELSE ""

----------------------------------------------------------------------------
(* path_join *)

OMNIVERSE == "omniverse://"

\* lines 44-45
StripDotSlash(name) == IF StartsWith(name, "./") THEN DropFirst(name, 2) ELSE name

RECURSIVE PopParents(_, _)
\* lines 46-48: the while loop, returning the pair (base, name) it ends with
PopParents(base, name) ==
    IF StartsWith(name, "../")
    THEN PopParents(os_path_dirname(base), DropFirst(name, 3))
    ELSE <<base, name>>

\* lines 49-50
StripTrailingSlash(base) == IF EndsWith(base, "/") THEN DropLast(base) ELSE base

path_join(base, name) ==
    IF StartsWith(base, OMNIVERSE)
    THEN LET bn == PopParents(base, StripDotSlash(name))
         IN  StripTrailingSlash(bn[1]) \o "/" \o bn[2]
    ELSE os_path_join(base, name)

----------------------------------------------------------------------------
(* The file system seen through omni.client.list, and the regex engine *)

None == -1              \* max_depth = None
DIRECTORY_FLAG == 4     \* (entry.flags & 4)
MaxDepthBound == 2      \* max_depth ranges over None and 0..MaxDepthBound

File(n) == [relative_path |-> n, flags |-> 1]
Dir(n)  == [relative_path |-> n, flags |-> 4]

\* The directories of the world and what a successful listing of each returns.
DirNames == {"/r", "/r/d1", "/r/d1/d2", "/r/d1/d2/d3", "/r/.thumbs", "/s",
             "omniverse://srv/p", "omniverse://srv/p/sub"}

Tree(d) ==
    CASE d = "/r"          -> <<File("a.usd"), File("readme.txt"), Dir("d1"),
                                File("robot_a.usd"), Dir(".thumbs")>>
      [] d = "/r/d1"       -> <<File("b.usda"), Dir("d2"), File("robot.txt")>>
      [] d = "/r/d1/d2"    -> <<Dir("d3"), File("c.usdc")>>
      [] d = "/r/d1/d2/d3" -> <<File("robot_deep.usdz")>>
      [] d = "/r/.thumbs"  -> <<File("t.usd")>>
      [] d = "/s"          -> <<File("e.usd"), File("table.usd"), File(".usd")>>
      [] d = "omniverse://srv/p"     -> <<File("robot_b.usd"), Dir("sub")>>
      [] d = "omniverse://srv/p/sub" -> <<File("x.usd"), File("notes.md")>>

\* The directories whose listing fails, one choice per run.
FailSets == {{}, {"/r/d1"}, {"/r"}, {"/r/d1/d2", "/s"}}

FileSystem(fail) ==
    [d \in DirNames |-> [ok |-> d \notin fail,
                         entries |-> IF d \in fail THEN <<>> ELSE Tree(d)]]

\* result, entries = omni.client.list(path); anything that is no directory of
\* the world (a missing path) gives a result other than OK.
omni_client_list(F, path) ==
    IF path \in DOMAIN F THEN F[path] ELSE [ok |-> FALSE, entries |-> <<>>]

\* (entry.flags & 4) > 0
IsDirectory(entry) == (entry.flags \div DIRECTORY_FLAG) % 2 = 1

\* re.compile(pattern_str) succeeds.  The patterns of the model are literal
\* words, which compile to a substring search, and patterns holding an
\* unclosed "(" or "[", for which re.compile raises re.error.
re_compile_ok(p) == ~Contains(p, "(") /\ ~Contains(p, "[")

\* pattern.search(s) is not None, for a compiled literal pattern
re_search(p, s) == Contains(s, p)

----------------------------------------------------------------------------
(* is_valid_usd_file and find_filtered_files *)

USD_EXTENSIONS == {".usd", ".usda", ".usdc", ".usdz"}

is_valid_usd_file(item, excludes) ==
    /\ \A i \in 1..Len(excludes) : ~Contains(item, excludes[i])
    /\ os_path_splitext_ext(item) \in USD_EXTENSIONS

\* lines 186-192: the patterns that compiled, in order
CompiledPatterns(patterns) ==
    IF patterns # <<>> THEN SelectSeq(patterns, re_compile_ok) ELSE <<>>

\* lines 207-216 with the all and any branches exchanged
PatternFilterSwapped(entry_path, patterns, all) ==
    LET compiled == CompiledPatterns(patterns)
    IN  IF patterns # <<>>
        THEN IF all
             THEN \E i \in 1..Len(compiled) : re_search(compiled[i], entry_path)
             ELSE \A i \in 1..Len(compiled) : re_search(compiled[i], entry_path)
        ELSE TRUE

\* lines 207-216: the pattern filter applied to a valid USD file
PatternFilter(entry_path, patterns, all) ==
    LET compiled == CompiledPatterns(patterns)
    IN  IF patterns # <<>>
        THEN IF all
             THEN \A i \in 1..Len(compiled) : re_search(compiled[i], entry_path)
             ELSE \E i \in 1..Len(compiled) : re_search(compiled[i], entry_path)
        ELSE TRUE

\* lines 203-216: a file entry is added to usd_files
Accepted(entry_path, a) ==
    /\ is_valid_usd_file(entry_path, a.filepath_excludes)
    /\ PatternFilter(entry_path, a.filter_patterns, a.match_all)

\* line 220 with <= written for <
MayDescendInclusive(current_depth, depth) == depth = None \/ current_depth <= depth

\* line 220 comparing the depth of the entry to be pushed
MayDescendStrict(current_depth, depth) == depth = None \/ current_depth + 1 < depth

\* line 220
MayDescend(current_depth, depth) == depth = None \/ current_depth < depth

\* lines 199-216: the files one successful listing adds
NewFiles(current_path, entries, a) ==
    {path_join(current_path, entries[i].relative_path) :
        i \in {j \in 1..Len(entries) :
                 /\ ~IsDirectory(entries[j])
                 /\ Accepted(path_join(current_path, entries[j].relative_path), a)}}

\* lines 219-221: the frontier entries one successful listing appends, in order
NewFolders(current_path, current_depth, entries, a) ==
    LET dirs == SelectSeq(entries, IsDirectory)
    IN  IF MayDescend(current_depth, a.max_depth)
        THEN [i \in 1..Len(dirs) |->
                 [path  |-> path_join(current_path, dirs[i].relative_path),
                  depth |-> current_depth + 1]]
        ELSE <<>>

\* line 198 leaving the loop on a failed listing
OnListFailedAbort(rest, files) == [remaining_folders |-> <<>>, usd_files |-> files]

\* line 198, result other than OK: nothing is added, the loop goes on
OnListFailed(rest, files) == [remaining_folders |-> rest, usd_files |-> files]

\* lines 195-221 with the popped entry left on the frontier
LoopBodyNoPop(F, a, st) ==
    LET n    == Len(st.remaining_folders)
        cur  == st.remaining_folders[n]
        r    == omni_client_list(F, cur.path)
    IN  IF r.ok
        THEN [remaining_folders |-> st.remaining_folders
                                       \o NewFolders(cur.path, cur.depth, r.entries, a),
              usd_files |-> st.usd_files \cup NewFiles(cur.path, r.entries, a)]
        ELSE [remaining_folders |-> st.remaining_folders, usd_files |-> st.usd_files]

\* lines 195-221: one iteration of the while loop
LoopBody(F, a, st) ==
    LET n    == Len(st.remaining_folders)
        cur  == st.remaining_folders[n]
        rest == SubSeq(st.remaining_folders, 1, n - 1)
        r    == omni_client_list(F, cur.path)
    IN  IF r.ok
        THEN [remaining_folders |-> rest \o NewFolders(cur.path, cur.depth, r.entries, a),
              usd_files |-> st.usd_files \cup NewFiles(cur.path, r.entries, a)]
        ELSE OnListFailed(rest, st.usd_files)

\* lines 181-183
InitialState(paths) ==
    [remaining_folders |-> [i \in 1..Len(paths) |-> [path |-> paths[i], depth |-> 0]],
     usd_files |-> {}]

RECURSIVE WhileLoop(_, _, _)
\* lines 194-223
WhileLoop(F, a, st) ==
    IF st.remaining_folders = <<>> THEN st.usd_files
    ELSE WhileLoop(F, a, LoopBody(F, a, st))

Args(paths, depth, excludes, patterns, all) ==
    [abs_paths |-> paths, max_depth |-> depth, filepath_excludes |-> excludes,
     filter_patterns |-> patterns, match_all |-> all]

\* the blocking function, as a function of its arguments and the file system
find_filtered_files(F, paths, depth, excludes, patterns, all) ==
    WhileLoop(F, Args(paths, depth, excludes, patterns, all), InitialState(paths))

----------------------------------------------------------------------------
(* Variables a specification does not use keep these values. *)

JoinIdle ==
    jbase = "" /\ jname = "" /\ jout = "" /\ jpc = "off"

FindIdle ==
    /\ fs = FileSystem({}) /\ abs_paths = <<>> /\ max_depth = None
    /\ filepath_excludes = <<>> /\ filter_patterns = <<>> /\ match_all = FALSE
    /\ remaining_folders = <<>> /\ usd_files = {} /\ pc = "off"
    /\ listed = <<>> /\ met = {}

AsyncIdle ==
    /\ acall = <<>> /\ apc = "off" /\ loop_ticks = 0 /\ listers = {}
    /\ cancel_seen = FALSE /\ pops_at_cancel = 0 /\ areturn = {}

LayerIdle ==
    /\ layers = <<>> /\ layer_identifier = "" /\ queue = <<>>
    /\ accessed_layers = <<>> /\ lpc = "off" /\ lret = FALSE /\ opened = <<>>
    /\ lsteps = 0

PairIdle ==
    calls = <<>>

CountIdle ==
    base_path = <<>> /\ sub_remaining = <<>> /\ sub_files = <<>> /\ items = <<>> /\ cpc = "off"

PathIdle ==
    ppath = "" /\ pstart = "" /\ pfn = "" /\ pout = "" /\ ppc = "off"

ThrottleIdle ==
    /\ settings = <<>> /\ loop_runner = "" /\ loop_manual_mode = FALSE
    /\ is_playing = FALSE /\ pending = <<>> /\ frame_count = 0
    /\ waiting_for_async_reenable = FALSE /\ frame_update_subscription = FALSE
    /\ timeline_event_sub = FALSE /\ last_handled = "" /\ frames_since_play = 0
    /\ reenabled = FALSE /\ play_window = FALSE /\ expired = FALSE /\ frames_waited = 0

ExtIdle ==
    PairIdle /\ CountIdle /\ PathIdle /\ ThrottleIdle

----------------------------------------------------------------------------
(* path_join applied to a pair of arguments *)

JoinBases == {"omniverse://srv/x/", "omniverse://srv/x", "omniverse://srv/a/b",
              "omniverse://srv/a/b/", "/local/path", "/local/path/", "",
              "https://host/p"}

JoinNames == {"file.usd", "./file.usd", "../y/z.usd", "../../z.usd", "./../z.usd",
              "y/z.usd", "/abs.usd", "sub/", "./"}

JoinInit ==
    /\ jbase \in JoinBases /\ jname \in JoinNames /\ jout = "" /\ jpc = "call"
    /\ FindIdle /\ AsyncIdle /\ LayerIdle /\ ExtIdle

JoinCall ==
    /\ jpc = "call"
    /\ jout' = path_join(jbase, jname)
    /\ jpc' = "done"
    /\ UNCHANGED <<jbase, jname, findVars, asyncVars, layerVars, extVars>>

JoinNext == JoinCall

SpecJoin == JoinInit /\ [][JoinNext]_vars

----------------------------------------------------------------------------
(* find_filtered_files, one loop iteration per step *)

RootLists == {<<"/r">>, <<"/r", "/s">>, <<"/r", "/r">>, <<"/r", "/r/d1">>,
              <<"/r/d1/d2">>, <<"omniverse://srv/p">>, <<"/s", "omniverse://srv/p">>,
              <<"/missing">>, <<>>}

ExcludeLists == {<<>>, <<".thumbs">>, <<"d2", "table">>}

PatternLists == {<<>>, <<"robot">>, <<"robot", "deep">>, <<"usd", "d1">>,
                 <<"(">>, <<"(", "[a">>, <<"robot", "(">>}

CurrentArgs == Args(abs_paths, max_depth, filepath_excludes, filter_patterns, match_all)

Locals == [remaining_folders |-> remaining_folders, usd_files |-> usd_files]

\* the call: arguments bound, lines 181-183 run
Enter(F, paths, depth, excludes, patterns, all) ==
    /\ fs = F /\ abs_paths = paths /\ max_depth = depth
    /\ filepath_excludes = excludes /\ filter_patterns = patterns /\ match_all = all
    /\ remaining_folders = InitialState(paths).remaining_folders
    /\ usd_files = InitialState(paths).usd_files
    /\ pc = "loop" /\ listed = <<>> /\ met = {}

FindInit ==
    /\ \E fail \in FailSets, paths \in RootLists,
          depth \in {None} \cup (0..MaxDepthBound), excludes \in ExcludeLists,
          patterns \in PatternLists, all \in BOOLEAN :
          Enter(FileSystem(fail), paths, depth, excludes, patterns, all)
    /\ JoinIdle /\ AsyncIdle /\ LayerIdle /\ ExtIdle

\* the entries a listing of current_path showed, as (joined path, flags)
Seen(current_path) ==
    LET r == omni_client_list(fs, current_path)
    IN  {[path |-> path_join(current_path, r.entries[i].relative_path),
          flags |-> r.entries[i].flags] : i \in 1..Len(r.entries)}

\* lines 194-221: pop one frontier entry, list it, handle its entries
Iterate ==
    /\ pc = "loop"
    /\ remaining_folders # <<>>
    /\ LET cur == remaining_folders[Len(remaining_folders)]
           st  == LoopBody(fs, CurrentArgs, Locals)
       IN  /\ remaining_folders' = st.remaining_folders
           /\ usd_files' = st.usd_files
           /\ listed' = Append(listed, cur.path)
           /\ met' = met \cup Seen(cur.path)
    /\ UNCHANGED <<fs, abs_paths, max_depth, filepath_excludes, filter_patterns,
                   match_all, pc>>

\* line 223
Return ==
    /\ pc = "loop"
    /\ remaining_folders = <<>>
    /\ pc' = "done"
    /\ UNCHANGED <<fs, abs_paths, max_depth, filepath_excludes, filter_patterns,
                   match_all, remaining_folders, usd_files, listed, met>>

FindNext ==
    \/ Iterate /\ UNCHANGED <<joinVars, asyncVars, layerVars, extVars>>
    \/ Return /\ UNCHANGED <<joinVars, asyncVars, layerVars, extVars>>

SpecFind == FindInit /\ [][FindNext]_vars

----------------------------------------------------------------------------
(* find_filtered_files_async: the coroutine on the event loop thread, and the
   ThreadPoolExecutor worker that runs find_filtered_files *)

MaxTicks == 2           \* other event-loop tasks the model follows per call

AsyncRoots == {"/r", "/s", "/r/d1", "omniverse://srv/p"}

AsyncCalls ==
    [root_path : AsyncRoots,
     filter_patterns : {<<>>, <<"robot">>, <<"(">>},
     match_all : BOOLEAN,
     filepath_excludes : {<<>>, <<".thumbs">>},
     max_depth : {None} \cup (0..MaxDepthBound)]

\* lines 562-567 passing filter_patterns and filepath_excludes in each other's place
ExecutorArgsSwapped(c) ==
    Args(<<c.root_path>>, c.max_depth, c.filter_patterns, c.filepath_excludes,
         c.match_all)

\* lines 562-567: the positional arguments handed to find_filtered_files
ExecutorArgs(c) ==
    Args(<<c.root_path>>, c.max_depth, c.filepath_excludes, c.filter_patterns,
         c.match_all)

\* line 560: the thread loop.run_in_executor runs the function on
Executor == "worker"

AsyncInit ==
    /\ acall \in AsyncCalls
    /\ apc = "call" /\ loop_ticks = 0 /\ listers = {}
    /\ cancel_seen = FALSE /\ pops_at_cancel = 0 /\ areturn = {}
    /\ fs \in {FileSystem({}), FileSystem({"/r/d1"})}
    /\ abs_paths = <<>> /\ max_depth = None
    /\ filepath_excludes = <<>> /\ filter_patterns = <<>> /\ match_all = FALSE
    /\ remaining_folders = <<>> /\ usd_files = {} /\ pc = "off"
    /\ listed = <<>> /\ met = {}
    /\ JoinIdle /\ LayerIdle /\ ExtIdle

\* lines 558-568: the work item is submitted and the coroutine suspends
Submit ==
    /\ apc = "call"
    /\ apc' = "awaiting"
    /\ LET a == ExecutorArgs(acall)
       IN  /\ abs_paths' = a.abs_paths
           /\ max_depth' = a.max_depth
           /\ filepath_excludes' = a.filepath_excludes
           /\ filter_patterns' = a.filter_patterns
           /\ match_all' = a.match_all
    /\ pc' = "queued"
    /\ UNCHANGED <<fs, remaining_folders, usd_files, listed, met>>
    /\ UNCHANGED <<acall, loop_ticks, listers, cancel_seen, pops_at_cancel, areturn>>

\* the worker takes the work item and enters find_filtered_files, lines 181-192
WorkerStart ==
    /\ pc = "queued"
    /\ remaining_folders' = InitialState(abs_paths).remaining_folders
    /\ usd_files' = InitialState(abs_paths).usd_files
    /\ pc' = "loop"
    /\ UNCHANGED <<fs, abs_paths, max_depth, filepath_excludes, filter_patterns,
                   match_all, listed, met>>
    /\ UNCHANGED asyncVars

\* the worker runs one iteration of the while loop
WorkerIterate ==
    /\ Iterate
    /\ listers' = listers \cup {Executor}
    /\ UNCHANGED <<acall, apc, loop_ticks, cancel_seen, pops_at_cancel, areturn>>

\* the worker returns from find_filtered_files: the future is done
WorkerReturn ==
    /\ Return
    /\ UNCHANGED asyncVars

\* the event loop runs some other task while the coroutine is suspended
OtherTask ==
    /\ apc = "awaiting"
    /\ loop_ticks < MaxTicks
    /\ loop_ticks' = loop_ticks + 1
    /\ UNCHANGED <<acall, apc, listers, cancel_seen, pops_at_cancel, areturn>>
    /\ UNCHANGED findVars

\* lines 560, 570: the await ends with the result, the with block is left with
\* the worker idle, the set is returned
Resume ==
    /\ apc = "awaiting"
    /\ pc = "done"
    /\ areturn' = usd_files
    /\ apc' = "returned"
    /\ UNCHANGED <<acall, loop_ticks, listers, cancel_seen, pops_at_cancel>>
    /\ UNCHANGED findVars

\* The task is cancelled while the work item is still queued: the
\* concurrent future is cancelled with it and the function never runs.
CancelQueued ==
    /\ apc = "awaiting"
    /\ pc = "queued"
    /\ cancel_seen' = TRUE
    /\ pops_at_cancel' = Len(listed)
    /\ apc' = "cancelled"
    /\ pc' = "dropped"
    /\ UNCHANGED <<acall, loop_ticks, listers, areturn>>
    /\ UNCHANGED <<fs, abs_paths, max_depth, filepath_excludes, filter_patterns,
                   match_all, remaining_folders, usd_files, listed, met>>

\* The task is cancelled while the worker runs the function: CancelledError
\* is raised at the await of line 560 and leaving the with block of line 559
\* calls executor.shutdown(wait=True) on the event loop thread.  Nothing is
\* told to the worker.
Cancel ==
    /\ apc = "awaiting"
    /\ pc \in {"loop", "done"}
    /\ cancel_seen' = TRUE
    /\ pops_at_cancel' = Len(listed)
    /\ apc' = "shutdown_wait"
    /\ UNCHANGED <<acall, loop_ticks, listers, areturn>>
    /\ UNCHANGED findVars

\* shutdown(wait=True) returns once the worker has returned; CancelledError
\* leaves the coroutine and the set the worker built is dropped
ShutdownDone ==
    /\ apc = "shutdown_wait"
    /\ pc = "done"
    /\ apc' = "cancelled"
    /\ UNCHANGED <<acall, loop_ticks, listers, cancel_seen, pops_at_cancel, areturn>>
    /\ UNCHANGED findVars

AsyncNext ==
    \/ Submit /\ UNCHANGED <<joinVars, layerVars, extVars>>
    \/ WorkerStart /\ UNCHANGED <<joinVars, layerVars, extVars>>
    \/ WorkerIterate /\ UNCHANGED <<joinVars, layerVars, extVars>>
    \/ WorkerReturn /\ UNCHANGED <<joinVars, layerVars, extVars>>
    \/ OtherTask /\ UNCHANGED <<joinVars, layerVars, extVars>>
    \/ Resume /\ UNCHANGED <<joinVars, layerVars, extVars>>
    \/ CancelQueued /\ UNCHANGED <<joinVars, layerVars, extVars>>
    \/ Cancel /\ UNCHANGED <<joinVars, layerVars, extVars>>
    \/ ShutdownDone /\ UNCHANGED <<joinVars, layerVars, extVars>>

SpecAsync == AsyncInit /\ [][AsyncNext]_vars

----------------------------------------------------------------------------
(* layer_has_missing_references, one loop iteration per step *)

MaxWalkSteps == 8       \* loop iterations the model follows in one walk

LayerIds == {"/l/A.usd", "/l/B.usd", "/l/C.usd"}

\* layer.externalReferences of one layer: raw asset paths, some empty, some
\* relative to the layer, some absolute, some naming a file that does not exist
ReferenceLists == {<<>>, <<"">>, <<"A.usd">>, <<"B.usd">>, <<"/l/C.usd">>,
                   <<"B.usd", "C.usd">>, <<"", "/l/A.usd">>, <<"M.usd">>,
                   <<"B.usd", "/l/B.usd">>}

\* The identifiers Sdf.Layer.FindOrOpen cannot open, besides those of no file.
UnopenableSets == {{}, {"/l/B.usd"}, {"/l/C.usd"}, {"/l/A.usd"}}

\* layer.ComputeAbsolutePath(reference): a relative asset path is anchored at
\* the directory of the layer, an absolute one is kept
ComputeAbsolutePath(identifier, reference) ==
    IF StartsWith(reference, "/") THEN reference
    ELSE os_path_dirname(identifier) \o "/" \o reference

\* Sdf.Layer.FindOrOpen(identifier) returns a layer
FindOrOpen(L, identifier) == identifier \in DOMAIN L /\ L[identifier].openable

\* lines 428-431: what one opened layer appends to the queue, in order
Enqueued(L, identifier) ==
    LET refs == SelectSeq(L[identifier].externalReferences, LAMBDA r : r # "")
    IN  [i \in 1..Len(refs) |-> ComputeAbsolutePath(identifier, refs[i])]

\* line 422 with the visited test left out
AlreadyAccessedNever(identifier, accessed) == FALSE

\* line 422
AlreadyAccessed(identifier, accessed) ==
    \E i \in 1..Len(accessed) : accessed[i] = identifier

\* lines 432-433 going on with the queue instead of returning True
OnUnopenableSkip(st, rest, identifier) ==
    [st EXCEPT !.queue = rest,
               !.accessed_layers = Append(st.accessed_layers, identifier)]

\* lines 432-433
OnUnopenable(st, rest, identifier) ==
    [st EXCEPT !.queue = rest,
               !.accessed_layers = Append(st.accessed_layers, identifier),
               !.lpc = "done", !.lret = TRUE]

\* lines 421-433: one iteration of the while loop
WalkBody(L, st) ==
    LET identifier == Head(st.queue)
        rest       == Tail(st.queue)
    IN  IF AlreadyAccessed(identifier, st.accessed_layers)
        THEN [st EXCEPT !.queue = rest]
        ELSE IF FindOrOpen(L, identifier)
        THEN [st EXCEPT !.queue = rest \o Enqueued(L, identifier),
                        !.accessed_layers = Append(st.accessed_layers, identifier)]
        ELSE OnUnopenable(st, rest, identifier)

WalkLocals ==
    [queue |-> queue, accessed_layers |-> accessed_layers, lpc |-> lpc, lret |-> lret]

LayerInit ==
    /\ \E ra, rb, rc \in ReferenceLists, bad \in UnopenableSets :
          layers = [id \in LayerIds |->
                      [openable |-> id \notin bad,
                       externalReferences |->
                           IF id = "/l/A.usd" THEN ra
                           ELSE IF id = "/l/B.usd" THEN rb ELSE rc]]
    /\ layer_identifier = "/l/A.usd"
    /\ queue = <<layer_identifier>>
    /\ accessed_layers = <<>>
    /\ lpc = "loop" /\ lret = FALSE /\ opened = <<>> /\ lsteps = 0
    /\ JoinIdle /\ FindIdle /\ AsyncIdle /\ ExtIdle

\* lines 420-433
Walk ==
    /\ lpc = "loop"
    /\ queue # <<>>
    /\ lsteps < MaxWalkSteps
    /\ LET st == WalkBody(layers, WalkLocals)
       IN  /\ queue' = st.queue
           /\ accessed_layers' = st.accessed_layers
           /\ lpc' = st.lpc
           /\ lret' = st.lret
           /\ opened' = IF Len(st.accessed_layers) > Len(accessed_layers)
                        THEN Append(opened, Head(queue)) ELSE opened
    /\ lsteps' = lsteps + 1
    /\ UNCHANGED <<layers, layer_identifier>>

\* line 435
WalkReturnFalse ==
    /\ lpc = "loop"
    /\ queue = <<>>
    /\ lpc' = "done"
    /\ lret' = FALSE
    /\ UNCHANGED <<layers, layer_identifier, queue, accessed_layers, opened, lsteps>>

LayerNext ==
    \/ Walk /\ UNCHANGED <<joinVars, findVars, asyncVars, extVars>>
    \/ WalkReturnFalse /\ UNCHANGED <<joinVars, findVars, asyncVars, extVars>>

\* The loop is sequential code: while it can take a step it takes one.
SpecLayer == LayerInit /\ [][LayerNext]_vars /\ WF_vars(LayerNext)

----------------------------------------------------------------------------
(* What the claims about find_filtered_files speak of *)

RECURSIVE CountChar(_, _)
CountChar(s, c) ==
    IF s = "" THEN 0
    ELSE (IF SubSeq(s, 1, 1) = c THEN 1 ELSE 0) + CountChar(DropFirst(s, 1), c)

\* f lies somewhere below the directory root
Below(root, f) == StartsWith(f, root \o "/")

\* the number of directory levels between root and the file f below it:
\* 0 for a file directly inside root
LevelsBelow(root, f) == CountChar(DropFirst(f, Len(root)), "/") - 1

Roots == {abs_paths[i] : i \in 1..Len(abs_paths)}

\* the sub-directories a successful listing of d shows, by their full names
SubDirs(F, d) ==
    LET r == omni_client_list(F, d)
    IN  {d \o "/" \o r.entries[i].relative_path :
            i \in {j \in 1..Len(r.entries) : r.entries[j].flags = DIRECTORY_FLAG}}

RECURSIVE ReachFrom(_, _, _, _)
\* d, and every directory at most depth - level levels below d that is reached
\* through directories whose listing succeeds
ReachFrom(F, depth, d, level) ==
    {d} \cup
    IF omni_client_list(F, d).ok /\ (depth = None \/ level < depth)
    THEN UNION {ReachFrom(F, depth, c, level + 1) : c \in SubDirs(F, d)}
    ELSE {}

Reachable == UNION {ReachFrom(fs, max_depth, r, 0) : r \in Roots}

Times(seq, x) == Cardinality({i \in 1..Len(seq) : seq[i] = x})

\* no root is named twice and no root lies inside another
DisjointRoots ==
    \A i, j \in 1..Len(abs_paths) :
        i # j => abs_paths[i] # abs_paths[j] /\ ~Below(abs_paths[i], abs_paths[j])

\* (C1) With max_depth = D, no returned file lies more than D directory levels
\* below every root, no frontier entry is deeper than D, and with D = 0 only
\* the roots are ever listed.
C1_DepthBound ==
    max_depth # None =>
        /\ \A f \in usd_files :
              \E r \in Roots : Below(r, f) /\ LevelsBelow(r, f) <= max_depth
        /\ \A i \in 1..Len(remaining_folders) : remaining_folders[i].depth <= max_depth
        /\ max_depth = 0 => \A i \in 1..Len(listed) : listed[i] \in Roots

C1_Witness ==
    /\ pc = "done" /\ max_depth = 1 /\ abs_paths = <<"/r">>
    /\ "/r/d1/b.usda" \in usd_files
    /\ fs["/r/d1/d2"].ok /\ "/r/d1/d2" \notin Roots
    /\ filter_patterns = <<>> /\ filepath_excludes = <<>>

\* (C2, as claimed) When the run ends, every directory reachable from a root
\* within the depth bound has been listed exactly once, whatever the roots.
C2_ListedExactlyOnce ==
    pc = "done" => \A d \in Reachable : Times(listed, d) = 1

\* (C2, amended) When the run ends, every directory reachable from a root within
\* the depth bound has been listed, nothing else has, and when no root repeats
\* or lies inside another each of them has been listed exactly once.
C2_ListedOnceDisjointRoots ==
    pc = "done" =>
        /\ \A d \in Reachable : Times(listed, d) >= 1
        /\ \A i \in 1..Len(listed) : listed[i] \in Reachable
        /\ DisjointRoots => \A d \in Reachable : Times(listed, d) = 1

C2_Witness ==
    /\ pc = "done" /\ abs_paths = <<"/r", "/s">> /\ max_depth = 2
    /\ Times(listed, "/r/d1/d2") = 1 /\ Times(listed, "/s") = 1
    /\ Cardinality(Reachable) = 5

\* the files the listing of d contributes
AcceptedIn(d) ==
    LET r == omni_client_list(fs, d)
    IN  {e.path : e \in {x \in Seen(d) : x.flags # DIRECTORY_FLAG
                                         /\ Accepted(x.path, CurrentArgs)}}

\* (C5) A failed listing does not end the traversal: when the run ends every
\* directory reachable through successful listings has been listed and no
\* other, the result is exactly the accepted files of those whose listing
\* succeeded, and no returned file lies directly in one whose listing failed.
C5_FailedListingSkipsBranch ==
    pc = "done" =>
        /\ \A d \in Reachable : Times(listed, d) >= 1
        /\ usd_files = UNION {AcceptedIn(d) :
                                d \in {x \in Reachable : omni_client_list(fs, x).ok}}
        /\ \A i \in 1..Len(listed) : listed[i] \in Reachable
        /\ \A d \in Reachable :
              ~omni_client_list(fs, d).ok =>
                  \A f \in usd_files : SubSeq(f, 1, RFind(f, "/") - 1) # d

\* a listing failed, and a directory popped after it contributed a file
C5_Witness ==
    /\ pc = "done"
    /\ \E i, j \in 1..Len(listed) :
          /\ i < j
          /\ ~omni_client_list(fs, listed[i]).ok
          /\ omni_client_list(fs, listed[j]).ok
          /\ AcceptedIn(listed[j]) # {}
          /\ AcceptedIn(listed[j]) \subseteq usd_files

AllInvalid(patterns) ==
    patterns # <<>> /\ \A i \in 1..Len(patterns) : ~re_compile_ok(patterns[i])

\* (C6) When every given pattern fails to compile the result is the one that
\* the same call without filter patterns returns, for either match_all.
C6_AllInvalidMeansNoFilter ==
    pc = "done" /\ AllInvalid(filter_patterns) =>
        usd_files = find_filtered_files(fs, abs_paths, max_depth,
                                        filepath_excludes, <<>>, match_all)

\* the pattern compiles and is found in s
Found(p, s) == re_compile_ok(p) /\ re_search(p, s)

ValidUsd(path) ==
    /\ \A i \in 1..Len(filepath_excludes) : ~Contains(path, filepath_excludes[i])
    /\ os_path_splitext_ext(path) \in {".usd", ".usda", ".usdc", ".usdz"}

\* (C7, as claimed) An entry met is in the result iff it is a file, a valid USD
\* file, and no pattern was given, or match_all and every given pattern is
\* found in its path, or not match_all and some given pattern is found.
C7_AcceptedIffGivenPatterns ==
    \A e \in met :
        e.path \in usd_files <=>
            /\ e.flags # DIRECTORY_FLAG
            /\ ValidUsd(e.path)
            /\ \/ filter_patterns = <<>>
               \/ match_all /\ \A i \in 1..Len(filter_patterns) :
                                  Found(filter_patterns[i], e.path)
               \/ ~match_all /\ \E i \in 1..Len(filter_patterns) :
                                   Found(filter_patterns[i], e.path)

\* (C7, amended) The same, with "every pattern" and "some pattern" ranging over
\* the given patterns that compiled.
C7_AcceptedIffCompiledPatterns ==
    \A e \in met :
        e.path \in usd_files <=>
            /\ e.flags # DIRECTORY_FLAG
            /\ ValidUsd(e.path)
            /\ \/ filter_patterns = <<>>
               \/ match_all /\ \A i \in 1..Len(filter_patterns) :
                                  re_compile_ok(filter_patterns[i])
                                      => re_search(filter_patterns[i], e.path)
               \/ ~match_all /\ \E i \in 1..Len(filter_patterns) :
                                   Found(filter_patterns[i], e.path)

C7_Witness ==
    /\ pc = "done" /\ filter_patterns = <<"robot", "(">> /\ match_all
    /\ "/r/robot_a.usd" \in usd_files /\ "/r/a.usd" \notin usd_files
    /\ [path |-> "/r/a.usd", flags |-> 1] \in met
    /\ [path |-> "/r/d1", flags |-> 4] \in met

----------------------------------------------------------------------------
(* What the claims about path_join speak of *)

RECURSIVE LeadingParents(_)
\* the number of leading "../" segments of name
LeadingParents(name) ==
    IF StartsWith(name, "../") THEN 1 + LeadingParents(DropFirst(name, 3)) ELSE 0

\* the directory levels of an omniverse:// URL below its authority
UrlLevels(base) == CountChar(StripTrailingSlash(DropFirst(base, Len(OMNIVERSE))), "/")

RECURSIVE PopLevels(_, _)
\* base, written without a trailing "/", with its last k directory levels removed
PopLevels(base, k) ==
    IF k = 0 THEN base ELSE PopLevels(SubSeq(base, 1, RFind(base, "/") - 1), k - 1)

\* (C8) For an omniverse:// base that has the levels to pop, the result is base
\* with one directory level removed per leading "../" of name, "/" and the rest
\* of name, whether or not base ends with "/"; path_join("omniverse://srv/x/",
\* "../y/z.usd") is "omniverse://srv/y/z.usd".
C8_PopsOneLevelPerSegment ==
    jpc = "done" /\ StartsWith(jbase, OMNIVERSE) =>
        LET name == StripDotSlash(jname)
            k    == LeadingParents(name)
        IN  /\ k <= UrlLevels(jbase) =>
                  jout = PopLevels(StripTrailingSlash(jbase), k)
                             \o "/" \o DropFirst(name, 3 * k)
            /\ jbase = "omniverse://srv/x/" /\ jname = "../y/z.usd" =>
                  jout = "omniverse://srv/y/z.usd"

----------------------------------------------------------------------------
(* What the claims about layer_has_missing_references speak of *)

\* the layers that the non-empty external references of an openable layer name
Targets(L, id) ==
    IF FindOrOpen(L, id)
    THEN {ComputeAbsolutePath(id, L[id].externalReferences[i]) :
             i \in {j \in 1..Len(L[id].externalReferences) :
                      L[id].externalReferences[j] # ""}}
    ELSE {}

RECURSIVE ReferenceClosure(_, _)
\* S and everything reachable from S along references
ReferenceClosure(L, S) ==
    LET N == S \cup UNION {Targets(L, id) : id \in S}
    IN  IF N = S THEN S ELSE ReferenceClosure(L, N)

ReachableLayers == ReferenceClosure(layers, {layer_identifier})

LayerA == "/l/A.usd"
LayerB == "/l/B.usd"

\* (C3) The walk returns True iff some layer reachable from the start layer
\* through non-empty external references (itself included) cannot be opened,
\* and it returns False only with the queue empty and every accessed layer
\* openable.
C3_MissingIffUnopenableReachable ==
    lpc = "done" =>
        /\ lret <=> \E id \in ReachableLayers : ~FindOrOpen(layers, id)
        /\ ~lret =>
              /\ queue = <<>>
              /\ \A i \in 1..Len(accessed_layers) : FindOrOpen(layers, accessed_layers[i])
              /\ {accessed_layers[i] : i \in 1..Len(accessed_layers)} = ReachableLayers

\* A -> B with B unopenable: True
C3_Witness ==
    /\ lpc = "done" /\ lret /\ layer_identifier = LayerA
    /\ layers[LayerA].openable /\ layers[LayerA].externalReferences = <<"B.usd">>
    /\ ~layers[LayerB].openable
    /\ accessed_layers = <<LayerA, LayerB>>

\* (C4) Every walk ends, within the iterations the model follows, and on the
\* cycle A -> B -> A with both openable it ends with False.
C4_Terminates ==
    /\ <>(lpc = "done")
    /\ [](lpc = "loop" /\ queue # <<>> => lsteps < MaxWalkSteps)
    /\ [](lpc = "done" /\ layer_identifier = LayerA
            /\ layers[LayerA].openable /\ layers[LayerB].openable
            /\ layers[LayerA].externalReferences = <<"B.usd">>
            /\ layers[LayerB].externalReferences = <<"A.usd">>
          => ~lret)

\* the cycle A -> B -> A, both openable, walked to the end
C4_Witness ==
    /\ lpc = "done" /\ ~lret /\ layer_identifier = LayerA
    /\ layers[LayerA].openable /\ layers[LayerB].openable
    /\ layers[LayerA].externalReferences = <<"B.usd">>
    /\ layers[LayerB].externalReferences = <<"A.usd">>
    /\ accessed_layers = <<LayerA, LayerB>> /\ lsteps = 3

----------------------------------------------------------------------------
(* What the claims about find_filtered_files_async speak of *)

\* the blocking call the wrapper stands for
BlockingResult ==
    find_filtered_files(fs, <<acall.root_path>>, acall.max_depth,
                        acall.filepath_excludes, acall.filter_patterns,
                        acall.match_all)

\* (C9) What the coroutine returns is the set the blocking find_filtered_files
\* returns for [root] and the same options; every listing is made by the
\* executor's worker; and while the traversal is queued or running and the
\* task is not cancelled the coroutine is suspended, so the event loop can run
\* another task.
C9_AsyncEqualsBlocking ==
    /\ apc = "returned" => areturn = BlockingResult
    /\ listers \subseteq {"worker"}
    /\ pc \in {"queued", "loop"} /\ ~cancel_seen =>
          /\ apc = "awaiting"
          /\ loop_ticks < MaxTicks => ENABLED OtherTask

C9_Witness ==
    /\ apc = "returned" /\ areturn # {} /\ Len(listed) >= 3
    /\ loop_ticks >= 1 /\ listers = {"worker"}
    /\ acall.filter_patterns # <<>> /\ acall.filepath_excludes # <<>>

\* (C10) Once the cancellation has been observed the traversal pops no further
\* frontier entry: at most the listing that was in flight at that moment is
\* still completed.
C10_NoPopAfterCancel ==
    cancel_seen => Len(listed) <= pops_at_cancel + 1

----------------------------------------------------------------------------
(* Two invocations of find_filtered_files in flight at once (two threads, or
   two find_filtered_files_async calls, each with the executor it created):
   one loop iteration of one invocation per step, in any interleaving.  The
   file system is the one thing both see. *)

PairArgs ==
    {Args(paths, depth, <<>>, patterns, FALSE) :
        paths \in {<<"/r">>, <<"/r/d1", "/s">>, <<"omniverse://srv/p">>},
        depth \in {None, 1},
        patterns \in {<<>>, <<"robot">>}}

Invocations == 1..2

\* lines 181-183 for one invocation: its own usd_files and remaining_folders
NewInvocation(a) ==
    [args |-> a,
     remaining_folders |-> InitialState(a.abs_paths).remaining_folders,
     usd_files |-> InitialState(a.abs_paths).usd_files,
     pc |-> "loop"]

\* an iteration of invocation i that stores its frontier into every invocation
PairStepSharedFrontier(F, cs, i) ==
    LET st == LoopBody(F, cs[i].args, [remaining_folders |-> cs[i].remaining_folders,
                                       usd_files |-> cs[i].usd_files])
    IN  [j \in DOMAIN cs |->
            [cs[j] EXCEPT !.remaining_folders = st.remaining_folders,
                          !.usd_files = IF j = i THEN st.usd_files ELSE @]]

\* lines 195-221 run by invocation i: usd_files and remaining_folders are
\* locals of the call (lines 181-182), nothing at module level is assigned
PairStep(F, cs, i) ==
    LET st == LoopBody(F, cs[i].args, [remaining_folders |-> cs[i].remaining_folders,
                                       usd_files |-> cs[i].usd_files])
    IN  [cs EXCEPT ![i].remaining_folders = st.remaining_folders,
                   ![i].usd_files = st.usd_files]

PairInit ==
    /\ \E fail \in {{}, {"/r/d1"}} : fs = FileSystem(fail)
    /\ \E a \in PairArgs, b \in PairArgs :
          calls = [i \in Invocations |-> NewInvocation(IF i = 1 THEN a ELSE b)]
    /\ abs_paths = <<>> /\ max_depth = None
    /\ filepath_excludes = <<>> /\ filter_patterns = <<>> /\ match_all = FALSE
    /\ remaining_folders = <<>> /\ usd_files = {} /\ pc = "off"
    /\ listed = <<>> /\ met = {}
    /\ JoinIdle /\ AsyncIdle /\ LayerIdle /\ CountIdle /\ PathIdle /\ ThrottleIdle

PairIterate(i) ==
    /\ calls[i].pc = "loop"
    /\ calls[i].remaining_folders # <<>>
    /\ calls' = PairStep(fs, calls, i)

\* line 223
PairReturn(i) ==
    /\ calls[i].pc = "loop"
    /\ calls[i].remaining_folders = <<>>
    /\ calls' = [calls EXCEPT ![i].pc = "done"]

PairNext ==
    \/ \E i \in Invocations : PairIterate(i) /\ UNCHANGED <<joinVars, findVars, asyncVars, layerVars, countVars, pathVars, throttleVars>>
    \/ \E i \in Invocations : PairReturn(i) /\ UNCHANGED <<joinVars, findVars, asyncVars, layerVars, countVars, pathVars, throttleVars>>

SpecPair == PairInit /\ [][PairNext]_vars

----------------------------------------------------------------------------
(* What the claims about concurrent invocations speak of *)

RECURSIVE SoloStates(_, _, _)
\* the (frontier, result) states an invocation passes through when it runs alone
SoloStates(F, a, st) ==
    IF st.remaining_folders = <<>> THEN {st}
    ELSE {st} \cup SoloStates(F, a, LoopBody(F, a, st))

TraversalState(c) == [remaining_folders |-> c.remaining_folders, usd_files |-> c.usd_files]

\* C11: two invocations running concurrently share no traversal state: under
\* every interleaving of their loop iterations each invocation is always in a
\* state of its own solo run and returns the set it returns when run alone,
\* and a step of one invocation leaves the frontier and the result set of the
\* other as they were.
C11_ConcurrentRunsIndependent ==
    /\ [](\A i \in DOMAIN calls :
            /\ TraversalState(calls[i])
                 \in SoloStates(fs, calls[i].args, InitialState(calls[i].args.abs_paths))
            /\ calls[i].pc = "done" =>
                 calls[i].usd_files =
                    find_filtered_files(fs, calls[i].args.abs_paths, calls[i].args.max_depth,
                                        calls[i].args.filepath_excludes,
                                        calls[i].args.filter_patterns,
                                        calls[i].args.match_all))
    /\ [][\A i \in DOMAIN calls :
            calls'[i] # calls[i] =>
               \A j \in DOMAIN calls \ {i} : calls'[j] = calls[j]]_vars

\* both invocations are in the middle of their traversals, with different
\* arguments, each with files found and directories still to list
C11_Witness ==
    /\ DOMAIN calls = Invocations
    /\ calls[1].args # calls[2].args
    /\ \A i \in Invocations :
          /\ calls[i].pc = "loop"
          /\ calls[i].usd_files # {}
          /\ calls[i].remaining_folders # <<>>

----------------------------------------------------------------------------
(* count_asset_references: the find_files_recursive call in its first line,
   one loop iteration per step, and the await applied to what that call
   returned. *)

\* lines 115-117: the sub_files and the folders one successful listing appends
RecFiles(path, entries) ==
    LET fl == SelectSeq(entries, LAMBDA e : ~IsDirectory(e))
    IN  [i \in 1..Len(fl) |-> path_join(path, fl[i].relative_path)]

RecFolders(path, entries) ==
    LET dirs == SelectSeq(entries, IsDirectory)
    IN  [i \in 1..Len(dirs) |-> path_join(path, dirs[i].relative_path)]

\* lines 111-117: one iteration of the while loop of find_files_recursive
RecBody(F, st) ==
    LET n    == Len(st.remaining_folders)
        path == st.remaining_folders[n]
        rest == SubSeq(st.remaining_folders, 1, n - 1)
        r    == omni_client_list(F, path)
    IN  IF r.ok
        THEN [remaining_folders |-> rest \o RecFolders(path, r.entries),
              files |-> st.files \o RecFiles(path, r.entries)]
        ELSE [remaining_folders |-> rest, files |-> st.files]

\* line 367: find_files_recursive is declared with def (line 93), so the
\* value awaited is the list it returned, which has no __await__
Awaitable(f) == f \notin {"find_files_recursive"}

\* the references authored in the stages of the world, per stage
\* (UsdUtils.ModifyAssetPaths hands each authored asset path to add_path)
AuthoredReferences(stage_path) ==
    CASE stage_path = "/r/a.usd"       -> <<"./d1/b.usda", "robot_a.usd", "robot_a.usd">>
      [] stage_path = "/r/d1/b.usda"   -> <<"../a.usd", "d2/c.usdc", "/elsewhere/x.usd">>
      [] stage_path = "/s/e.usd"       -> <<"table.usd">>
      [] OTHER -> <<>>

\* lines 226-249 with resolve_relatives=True: list(set(paths))
get_stage_references(stage_path) ==
    {AuthoredReferences(stage_path)[i] : i \in 1..Len(AuthoredReferences(stage_path))}

CountInit ==
    /\ \E fail \in FailSets : fs = FileSystem(fail)
    /\ base_path \in RootLists
    /\ sub_remaining = base_path /\ sub_files = <<>> /\ items = <<>> /\ cpc = "listing"
    /\ abs_paths = <<>> /\ max_depth = None
    /\ filepath_excludes = <<>> /\ filter_patterns = <<>> /\ match_all = FALSE
    /\ remaining_folders = <<>> /\ usd_files = {} /\ pc = "off"
    /\ listed = <<>> /\ met = {}
    /\ JoinIdle /\ AsyncIdle /\ LayerIdle /\ PairIdle /\ PathIdle /\ ThrottleIdle

\* find_files_recursive, lines 110-117
RecIterate ==
    /\ cpc = "listing"
    /\ sub_remaining # <<>>
    /\ LET st == RecBody(fs, [remaining_folders |-> sub_remaining, files |-> sub_files])
       IN  /\ sub_remaining' = st.remaining_folders
           /\ sub_files' = st.files
    /\ UNCHANGED <<base_path, items, cpc>>

\* find_files_recursive, line 118: the list goes back to line 367
RecReturn ==
    /\ cpc = "listing"
    /\ sub_remaining = <<>>
    /\ cpc' = "await"
    /\ UNCHANGED <<base_path, sub_remaining, sub_files, items>>

\* line 367: await applied to the returned list
Await ==
    /\ cpc = "await"
    /\ IF Awaitable("find_files_recursive")
       THEN /\ items' = [i \in 1..Len(sub_files) |-> [key |-> sub_files[i], count |-> 0]]
            /\ cpc' = "counting"
       ELSE /\ items' = items
            /\ cpc' = "TypeError"
    /\ UNCHANGED <<base_path, sub_remaining, sub_files>>

CountNext ==
    \/ RecIterate /\ UNCHANGED <<joinVars, findVars, asyncVars, layerVars, pairVars, pathVars, throttleVars>>
    \/ RecReturn /\ UNCHANGED <<joinVars, findVars, asyncVars, layerVars, pairVars, pathVars, throttleVars>>
    \/ Await /\ UNCHANGED <<joinVars, findVars, asyncVars, layerVars, pairVars, pathVars, throttleVars>>

SpecCount == CountInit /\ [][CountNext]_vars

----------------------------------------------------------------------------
(* What the claims about count_asset_references speak of *)

RECURSIVE SumCounts(_)
SumCounts(m) == IF m = <<>> THEN 0 ELSE m[1].count + SumCounts(Tail(m))

RECURSIVE OutgoingReferences(_)
\* the number of outgoing references of the files of a list
OutgoingReferences(fl) ==
    IF fl = <<>> THEN 0
    ELSE Cardinality(get_stage_references(fl[1])) + OutgoingReferences(Tail(fl))

\* C12: count_asset_references(base_path) returns a mapping whose keys are
\* exactly the files found under base_path, whose counts add up to no more
\* than the number of outgoing references of those files, and whose entries
\* are in ascending order of count.
C12_ReturnsCountsOverFiles ==
    cpc \in {"TypeError", "returned"} =>
        /\ cpc = "returned"
        /\ {items[i].key : i \in 1..Len(items)} = {sub_files[i] : i \in 1..Len(sub_files)}
        /\ SumCounts(items) <= OutgoingReferences(sub_files)
        /\ \A i \in 1..Len(items), j \in 1..Len(items) :
              i < j => items[i].count <= items[j].count

----------------------------------------------------------------------------
(* More Python str operations, urllib.parse.urlparse and os.path (posixpath)
   as far as is_local_path, is_absolute_path and path_relative use them.
   The paths of the model hold none of the characters ";", "?" and "#". *)

Char(s, i) == SubSeq(s, i, i)

CharsOf(s) == {Char(s, i) : i \in 1..Len(s)}

\* the ASCII whitespace str.strip() removes
Whitespace == {" ", "\t", "\n", "\r", "\f"}

RECURSIVE LStrip(_, _)
\* s.lstrip(chars)
LStrip(s, chars) ==
    IF s # "" /\ Char(s, 1) \in chars THEN LStrip(DropFirst(s, 1), chars) ELSE s

RECURSIVE RStrip(_, _)
\* s.rstrip(chars)
RStrip(s, chars) ==
    IF s # "" /\ Char(s, Len(s)) \in chars THEN RStrip(DropLast(s), chars) ELSE s

\* s.strip()
Strip(s) == RStrip(LStrip(s, Whitespace), Whitespace)

UpperCase == "ABCDEFGHIJKLMNOPQRSTUVWXYZ"
LowerCase == "abcdefghijklmnopqrstuvwxyz"
Digits    == "0123456789"

LowerChar(c) ==
    IF c \in CharsOf(UpperCase)
    THEN Char(LowerCase, CHOOSE i \in 1..Len(UpperCase) : Char(UpperCase, i) = c)
    ELSE c

RECURSIVE Lower(_)
\* s.lower()
Lower(s) == IF s = "" THEN "" ELSE LowerChar(Char(s, 1)) \o Lower(DropFirst(s, 1))

\* s.find(c) + 1 for a one-character c: the 1-based place of the first c, 0 if none
Find(s, c) ==
    LET I == {i \in 1..Len(s) : Char(s, i) = c}
    IN  IF I = {} THEN 0 ELSE CHOOSE m \in I : \A x \in I : m <= x

RECURSIVE Split(_, _)
\* s.split(c)
Split(s, c) ==
    LET i == Find(s, c)
    IN  IF i = 0 THEN <<s>> ELSE <<SubSeq(s, 1, i - 1)>> \o Split(DropFirst(s, i), c)

RECURSIVE JoinWith(_, _)
\* c.join(parts)
JoinWith(parts, c) ==
    IF parts = <<>> THEN ""
    ELSE IF Len(parts) = 1 THEN parts[1]
    ELSE parts[1] \o c \o JoinWith(Tail(parts), c)

\* urllib.parse.urlparse(url): scheme, netloc and path
urlparse(u) ==
    LET url       == LStrip(u, Whitespace)
        i         == Find(url, ":")
        hasScheme == /\ i > 1
                     /\ Char(url, 1) \in CharsOf(UpperCase) \cup CharsOf(LowerCase)
                     /\ \A k \in 1..(i - 1) :
                           Char(url, k) \in CharsOf(UpperCase) \cup CharsOf(LowerCase)
                                            \cup CharsOf(Digits) \cup {"+", "-", "."}
        rest      == IF hasScheme THEN DropFirst(url, i) ELSE url
        hasNetloc == StartsWith(rest, "//")
        after     == DropFirst(rest, 2)
        d         == Find(after, "/")
    IN  [scheme |-> IF hasScheme THEN Lower(SubSeq(url, 1, i - 1)) ELSE "",
         netloc |-> IF ~hasNetloc THEN ""
                    ELSE IF d = 0 THEN after ELSE SubSeq(after, 1, d - 1),
         path   |-> IF ~hasNetloc THEN rest
                    ELSE IF d = 0 THEN "" ELSE DropFirst(after, d - 1)]

\* os.path.isabs(p)
os_path_isabs(p) == StartsWith(p, "/")

RECURSIVE NormComps(_, _, _)
\* the loop of os.path.normpath over the components of the path
NormComps(comps, new_comps, initial_slashes) ==
    IF comps = <<>> THEN new_comps
    ELSE LET comp == Head(comps)
         IN  IF comp \in {"", "."}
             THEN NormComps(Tail(comps), new_comps, initial_slashes)
             ELSE IF \/ comp # ".."
                     \/ (initial_slashes = 0 /\ new_comps = <<>>)
                     \/ (new_comps # <<>> /\ new_comps[Len(new_comps)] = "..")
             THEN NormComps(Tail(comps), Append(new_comps, comp), initial_slashes)
             ELSE IF new_comps # <<>>
             THEN NormComps(Tail(comps), SubSeq(new_comps, 1, Len(new_comps) - 1),
                            initial_slashes)
             ELSE NormComps(Tail(comps), new_comps, initial_slashes)

\* os.path.normpath(p)
os_path_normpath(p) ==
    IF p = "" THEN "."
    ELSE LET initial_slashes ==
                 IF ~StartsWith(p, "/") THEN 0
                 ELSE IF StartsWith(p, "//") /\ ~StartsWith(p, "///") THEN 2 ELSE 1
             joined == JoinWith(NormComps(Split(p, "/"), <<>>, initial_slashes), "/")
             out    == (IF initial_slashes = 2 THEN "//"
                        ELSE IF initial_slashes = 1 THEN "/" ELSE "") \o joined
         IN  IF out = "" THEN "." ELSE out

\* os.getcwd() of the process
Cwd == "/home/u"

\* os.path.abspath(p)
os_path_abspath(p) ==
    IF os_path_isabs(p) THEN os_path_normpath(p)
    ELSE os_path_normpath(os_path_join(Cwd, p))

\* the length of the longest common prefix of two lists
CommonPrefixLen(a, b) ==
    Max({k \in 0..Len(a) : k <= Len(b) /\ \A j \in 1..k : a[j] = b[j]})

\* os.path.relpath(p, start): the path, or ValueError for an empty p
os_path_relpath(p, start) ==
    IF p = "" THEN [raised |-> "ValueError", value |-> ""]
    ELSE LET start_list == SelectSeq(Split(os_path_abspath(start), "/"),
                                     LAMBDA x : x # "")
             path_list  == SelectSeq(Split(os_path_abspath(p), "/"),
                                     LAMBDA x : x # "")
             i          == CommonPrefixLen(start_list, path_list)
             rel_list   == [k \in 1..(Len(start_list) - i) |-> ".."]
                              \o SubSeq(path_list, i + 1, Len(path_list))
         IN  [raised |-> "",
              value  |-> IF rel_list = <<>> THEN "." ELSE JoinWith(rel_list, "/")]

----------------------------------------------------------------------------
(* is_local_path, is_absolute_path, path_relative *)

\* line 83
online_schemes == <<"omniverse://", "http://", "https://", "ftp://", "sftp://">>

\* lines 77-90
is_local_path(path) ==
    IF path = "" THEN TRUE
    ELSE ~\E i \in 1..Len(online_schemes) : StartsWith(Strip(path), online_schemes[i])

\* lines 261-265
is_absolute_path(path) ==
    \/ StartsWith(Lower(path), "omniverse://")
    \/ StartsWith(Lower(path), "file://")
    \/ os_path_isabs(path)

\* line 501: the URL branch is chosen by looking at path alone
UrlBranch(parsed_path, parsed_start) ==
    parsed_path.scheme # "" /\ parsed_path.netloc # ""

\* lines 493-509
path_relative(path, start) ==
    LET start1       == RStrip(start, {"/", "\\"})
        parsed_path  == urlparse(path)
        parsed_start == urlparse(start1)
    IN  IF UrlBranch(parsed_path, parsed_start)
        THEN IF \/ parsed_path.scheme # parsed_start.scheme
                \/ parsed_path.netloc # parsed_start.netloc
             THEN [raised |-> "ValueError", value |-> ""]
             ELSE os_path_relpath(parsed_path.path, parsed_start.path)
        ELSE os_path_relpath(os_path_normpath(path), os_path_normpath(start1))

----------------------------------------------------------------------------
(* One of the three path functions applied to its arguments *)

PathInputs == {"omniverse://srv/a/b.usd", "omniverse://other/a/b.usd",
               "omniverse://srv", "OMNIVERSE://srv/x.usd",
               "https://example.com/f.usd", "http://example.com/f.usd",
               "ftp://h/d/f.usd", "sftp://h/d/f.usd", " https://example.com/f.usd",
               "file:///data/f.usd", "/data/a/b.usd", "a/b.usd", "../up.usd",
               "C:\\data\\f.usd", ""}

StartInputs == {"omniverse://srv/a", "omniverse://srv/a/", "omniverse://other/a",
                "omniverse://srv", "https://example.com", "http://example.com/",
                "/data", "/data/a/", "rel/dir", ""}

PathInit ==
    /\ ppath \in PathInputs /\ pstart \in StartInputs
    /\ pfn = "" /\ pout = "" /\ ppc = "call"
    /\ FindIdle /\ JoinIdle /\ AsyncIdle /\ LayerIdle /\ PairIdle /\ CountIdle /\ ThrottleIdle

CallIsLocalPath ==
    /\ ppc = "call"
    /\ pfn' = "is_local_path"
    /\ pout' = is_local_path(ppath)
    /\ ppc' = "done"
    /\ UNCHANGED <<ppath, pstart>>

CallIsAbsolutePath ==
    /\ ppc = "call"
    /\ pfn' = "is_absolute_path"
    /\ pout' = is_absolute_path(ppath)
    /\ ppc' = "done"
    /\ UNCHANGED <<ppath, pstart>>

CallPathRelative ==
    /\ ppc = "call"
    /\ pfn' = "path_relative"
    /\ pout' = path_relative(ppath, pstart)
    /\ ppc' = "done"
    /\ UNCHANGED <<ppath, pstart>>

PathNext ==
    \/ CallIsLocalPath /\ UNCHANGED <<joinVars, findVars, asyncVars, layerVars, pairVars, countVars, throttleVars>>
    \/ CallIsAbsolutePath /\ UNCHANGED <<joinVars, findVars, asyncVars, layerVars, pairVars, countVars, throttleVars>>
    \/ CallPathRelative /\ UNCHANGED <<joinVars, findVars, asyncVars, layerVars, pairVars, countVars, throttleVars>>

SpecPath == PathInit /\ [][PathNext]_vars

----------------------------------------------------------------------------
(* What the claims about addressed and local paths speak of *)

\* URL-style joining: base without one trailing "/", then "/", then name after
\* its "./" and "../" handling
UrlStyleJoin(base, name) ==
    LET bn == PopParents(base, StripDotSlash(name))
    IN  StripTrailingSlash(bn[1]) \o "/" \o bn[2]

\* C13: for every base with is_local_path(base) false (omniverse://, http://,
\* https://, ftp://, sftp://) path_join(base, name) is the URL-style join and
\* never the native one; the native join is used only when base is local.
C13_AddressedBaseJoinsUrlStyle ==
    jpc = "done" =>
        IF is_local_path(jbase)
        THEN jout = os_path_join(jbase, jname)
        ELSE jout = UrlStyleJoin(jbase, jname)

\* C14: is_absolute_path(p) is true for every path p with is_local_path(p)
\* false, that is for http://, https://, ftp:// and sftp:// URLs as well as
\* omniverse:// URLs.
C14_AddressedIsAbsolute ==
    ppc = "done" /\ pfn = "is_absolute_path" /\ ~is_local_path(ppath) => pout = TRUE

\* p has a scheme and an authority
Addressed(p) == urlparse(p).scheme # "" /\ urlparse(p).netloc # ""

\* path and start differ in scheme or authority, and one of them is addressed
SchemeMismatch(path, start) ==
    /\ Addressed(path) \/ Addressed(start)
    /\ \/ urlparse(path).scheme # urlparse(start).scheme
       \/ urlparse(path).netloc # urlparse(start).netloc

\* C15: path_relative(path, start) raises ValueError whenever path and start
\* differ in scheme or authority, whichever of the two is the addressed one;
\* it never returns a relative path for such a pair.
C15_MismatchRaises ==
    ppc = "done" /\ pfn = "path_relative" /\ SchemeMismatch(ppath, pstart) =>
        pout.raised = "ValueError"

----------------------------------------------------------------------------
(* find_filtered_files with the two orders the result could depend on left
   open: which frontier entry an iteration takes, and the order in which
   omni.client.list hands back the entries of a directory.  The run of the
   code itself (take the last entry, line 195) is one of the behaviours. *)

ListingOrders(n) == {f \in [1..n -> 1..n] : \A i, j \in 1..n : f[i] = f[j] => i = j}

Permuted(entries, f) == [i \in 1..Len(entries) |-> entries[f[i]]]

RemoveAt(seq, k) == SubSeq(seq, 1, k - 1) \o SubSeq(seq, k + 1, Len(seq))

\* lines 195-221 for the frontier entry at place k and the listing in order f
LoopBodyAt(F, a, st, k, f) ==
    LET cur     == st.remaining_folders[k]
        rest    == RemoveAt(st.remaining_folders, k)
        r       == omni_client_list(F, cur.path)
        entries == Permuted(r.entries, f)
    IN  IF r.ok
        THEN [remaining_folders |-> rest \o NewFolders(cur.path, cur.depth, entries, a),
              usd_files |-> st.usd_files \cup NewFiles(cur.path, entries, a)]
        ELSE OnListFailed(rest, st.usd_files)

OrderInit ==
    /\ \E fail \in FailSets,
          paths \in {<<"/r">>, <<"/r", "/s">>, <<"/s", "omniverse://srv/p">>,
                     <<"/r", "/r/d1">>},
          depth \in {None} \cup (0..MaxDepthBound),
          patterns \in {<<>>, <<"robot">>} :
          Enter(FileSystem(fail), paths, depth, <<>>, patterns, FALSE)
    /\ JoinIdle /\ AsyncIdle /\ LayerIdle /\ ExtIdle

IterateAnyOrder ==
    /\ pc = "loop"
    /\ remaining_folders # <<>>
    /\ \E k \in 1..Len(remaining_folders) :
          LET cur == remaining_folders[k]
              r   == omni_client_list(fs, cur.path)
          IN  \E f \in ListingOrders(Len(r.entries)) :
                LET st == LoopBodyAt(fs, CurrentArgs, Locals, k, f)
                IN  /\ remaining_folders' = st.remaining_folders
                    /\ usd_files' = st.usd_files
                    /\ listed' = Append(listed, cur.path)
                    /\ met' = met \cup Seen(cur.path)
    /\ UNCHANGED <<fs, abs_paths, max_depth, filepath_excludes, filter_patterns,
                   match_all, pc>>

OrderNext ==
    \/ IterateAnyOrder /\ UNCHANGED <<joinVars, asyncVars, layerVars, extVars>>
    \/ Return /\ UNCHANGED <<joinVars, asyncVars, layerVars, extVars>>

SpecOrder == OrderInit /\ [][OrderNext]_vars

----------------------------------------------------------------------------
(* What the claims about the order of a traversal speak of *)

\* C16: whatever frontier entry each iteration takes and in whatever order each
\* listing returns its entries, the set returned is the set the call returns
\* when it takes the last entry and the listings come in stored order; so two
\* calls with identical arguments on an unchanged file system return the same
\* set.
C16_ResultIndependentOfOrder ==
    pc = "done" =>
        usd_files = find_filtered_files(fs, abs_paths, max_depth, filepath_excludes,
                                        filter_patterns, match_all)

\* a finished run over two roots that listed the first root first (the code
\* takes the last one first), went on below it, and found files
C16_Witness ==
    /\ pc = "done"
    /\ Len(abs_paths) = 2
    /\ Len(listed) >= 4
    /\ listed[1] = abs_paths[1]
    /\ listed[2] # abs_paths[2]
    /\ usd_files # {}

----------------------------------------------------------------------------
(* find_filtered_files run to its end: the thread that called it keeps
   executing, so an enabled loop step is eventually taken. *)

RunInit ==
    /\ \E fail \in FailSets, paths \in RootLists,
          depth \in {None} \cup (0..MaxDepthBound) :
          Enter(FileSystem(fail), paths, depth, <<>>, <<>>, FALSE)
    /\ JoinIdle /\ AsyncIdle /\ LayerIdle /\ ExtIdle

SpecRun == RunInit /\ [][FindNext]_vars /\ WF_vars(FindNext)

----------------------------------------------------------------------------
(* What the claims about termination speak of *)

\* C17: find_filtered_files terminates on every finite directory tree, for
\* every list of roots, with max_depth set or None: each loop iteration takes
\* the last entry off the frontier and appends only sub-directories of the
\* directory it just listed, one level deeper, and the call returns in the end.
C17_Terminates ==
    /\ <>(pc = "done")
    /\ [][listed' # listed =>
            LET n   == Len(remaining_folders)
                cur == remaining_folders[n]
            IN  /\ Len(remaining_folders') >= n - 1
                /\ SubSeq(remaining_folders', 1, n - 1) = SubSeq(remaining_folders, 1, n - 1)
                /\ \A i \in n..Len(remaining_folders') :
                      /\ remaining_folders'[i].path \in SubDirs(fs, cur.path)
                      /\ remaining_folders'[i].depth = cur.depth + 1]_vars

\* a finished run without a depth limit that went three levels below its root
\* and passed a directory whose listing failed
C17_Witness ==
    /\ pc = "done"
    /\ max_depth = None
    /\ \E i \in 1..Len(listed) : listed[i] = "/r/d1/d2/d3"
    /\ \E i \in 1..Len(listed) : ~omni_client_list(fs, listed[i]).ok

----------------------------------------------------------------------------
(* What the claims about the visited collection speak of *)

NoDuplicates(seq) == \A i, j \in 1..Len(seq) : seq[i] = seq[j] => i = j

\* C18: in every state of a layer_has_missing_references walk accessed_layers
\* holds no identifier twice and no identifier has been handed to
\* Sdf.Layer.FindOrOpen more than once, however many layers reference it.
C18_NoIdentifierProcessedTwice ==
    lpc # "off" => NoDuplicates(accessed_layers) /\ NoDuplicates(opened)

\* a finished walk in which A references B and C, B references C and C
\* references A: C was enqueued by A and by B, A by C, and each was opened once
C18_Witness ==
    /\ lpc = "done" /\ ~lret
    /\ layers[LayerA].externalReferences = <<"B.usd", "C.usd">>
    /\ layers[LayerB].externalReferences = <<"/l/C.usd">>
    /\ layers["/l/C.usd"].externalReferences = <<"A.usd">>
    /\ Times(opened, "/l/C.usd") = 1
    /\ Times(opened, LayerA) = 1
    /\ Len(accessed_layers) = 3

----------------------------------------------------------------------------
(* isaacsim.core.throttling extension.py: the Extension object between
   on_startup and on_shutdown.  The timeline changes state when it is told to
   play, pause or stop and puts an event on its stream; the subscription made
   with create_subscription_to_pop hands the events to on_stop_play later, in
   order.  Frame updates reach _on_frame_update while the frame-update
   subscription exists. *)

ASYNC_TOGGLE_SETTING  == "/exts/isaacsim.core.throttling/enable_async"
MANUAL_TOGGLE_SETTING == "/exts/isaacsim.core.throttling/enable_manualmode"
ASYNC_RENDERING       == "/app/asyncRendering"
ASYNC_LOW_LATENCY     == "/app/asyncRenderingLowLatency"
ECO_MODE              == "/rtx/ecoMode/enabled"
GIZMOS                == "/exts/omni.kit.hydra_texture/gizmos/enabled"
DEVELOPER_SECTION     == "/app/show_developer_preference_section"

SettingKeys == {ASYNC_TOGGLE_SETTING, MANUAL_TOGGLE_SETTING, ASYNC_RENDERING,
                ASYNC_LOW_LATENCY, ECO_MODE, GIZMOS, DEVELOPER_SECTION}

\* self._frame_delay, line 41
frame_delay == 10

\* the events still on the timeline's stream
MaxPending == 2

\* omni.timeline.TimelineEventType: the three the handler looks at, and one
\* standing for all the others
PLAY  == "PLAY"
STOP  == "STOP"
PAUSE == "PAUSE"
OTHER_EVENT == "CURRENT_TIME_TICKED"

\* the outcomes of lines 30-35 and of set_manual_mode: the interface is
\* there and works, is there and raises, or could not be acquired (None)
LoopRunners == {"acquired", "raising", "none"}

\* lines 61-66: the manual mode of the loop runner after the call
set_loop_manual_mode(runner, manual_mode, current) ==
    IF runner = "acquired" THEN manual_mode ELSE current

\* lines 54-56, 79-80 (value TRUE) and 116-117 (value FALSE)
SetAsyncRendering(S, value) ==
    [S EXCEPT ![ASYNC_RENDERING] = value, ![ASYNC_LOW_LATENCY] = value]

\* lines 112-113
PlaySettings(S) == [S EXCEPT ![ECO_MODE] = FALSE, ![GIZMOS] = FALSE]

\* lines 125-126 without the gizmos line
StopPauseSettingsEcoOnly(S) == [S EXCEPT ![ECO_MODE] = TRUE]

\* lines 125-126
StopPauseSettings(S) == [S EXCEPT ![ECO_MODE] = TRUE, ![GIZMOS] = TRUE]

\* the fields of the Extension object the frame counting uses
Counting == [frame_count |-> frame_count,
             waiting |-> waiting_for_async_reenable,
             subscription |-> frame_update_subscription]

\* lines 91-104 without the early return of lines 93-94
start_frame_counting_always(c) ==
    [frame_count |-> 0, waiting |-> TRUE, subscription |-> TRUE]

\* lines 91-104
start_frame_counting(c) ==
    IF c.waiting THEN c
    ELSE [frame_count |-> 0, waiting |-> TRUE, subscription |-> TRUE]

\* lines 76-77 without the is_playing test
MayReenableToggleOnly(playing, S) == S[ASYNC_TOGGLE_SETTING]

\* lines 76-77: the test made when the count reaches the delay
MayReenable(playing, S) == ~playing /\ S[ASYNC_TOGGLE_SETTING]

\* lines 68-89 with > in place of >= at line 75
on_frame_update_late(c, playing, S) ==
    IF ~c.waiting THEN [c |-> c, settings |-> S, reenabled |-> FALSE]
    ELSE IF c.frame_count + 1 > frame_delay
    THEN [c |-> [frame_count |-> 0, waiting |-> FALSE, subscription |-> FALSE],
          settings |-> IF MayReenable(playing, S) THEN SetAsyncRendering(S, TRUE) ELSE S,
          reenabled |-> MayReenable(playing, S)]
    ELSE [c |-> [c EXCEPT !.frame_count = c.frame_count + 1],
          settings |-> S, reenabled |-> FALSE]

\* lines 68-89: the fields after the callback, and the settings
on_frame_update(c, playing, S) ==
    IF ~c.waiting THEN [c |-> c, settings |-> S, reenabled |-> FALSE]
    ELSE IF c.frame_count + 1 >= frame_delay
    THEN [c |-> [frame_count |-> 0, waiting |-> FALSE, subscription |-> FALSE],
          settings |-> IF MayReenable(playing, S) THEN SetAsyncRendering(S, TRUE) ELSE S,
          reenabled |-> MayReenable(playing, S)]
    ELSE [c |-> [c EXCEPT !.frame_count = c.frame_count + 1],
          settings |-> S, reenabled |-> FALSE]

\* lines 106-134: the settings, the manual mode and the counting fields after
\* the handler has run for an event of the given type
on_stop_play(type, S, runner, mode, c) ==
    IF type = PLAY
    THEN [settings |-> IF S[ASYNC_TOGGLE_SETTING]
                       THEN SetAsyncRendering(PlaySettings(S), FALSE)
                       ELSE PlaySettings(S),
          mode |-> IF S[MANUAL_TOGGLE_SETTING]
                   THEN set_loop_manual_mode(runner, TRUE, mode) ELSE mode,
          c |-> c]
    ELSE IF type \in {STOP, PAUSE}
    THEN [settings |-> StopPauseSettings(S),
          mode |-> IF S[MANUAL_TOGGLE_SETTING]
                   THEN set_loop_manual_mode(runner, FALSE, mode) ELSE mode,
          c |-> IF S[ASYNC_TOGGLE_SETTING] THEN start_frame_counting(c) ELSE c]
    ELSE [settings |-> S, mode |-> mode, c |-> c]

\* lines 27-59: the settings and the manual mode on_startup leaves
on_startup(S, runner, mode) ==
    LET S1 == [S EXCEPT ![DEVELOPER_SECTION] = TRUE]
    IN  [settings |-> IF S1[ASYNC_TOGGLE_SETTING] THEN SetAsyncRendering(S1, TRUE) ELSE S1,
         mode |-> IF S1[MANUAL_TOGGLE_SETTING]
                  THEN set_loop_manual_mode(runner, FALSE, mode) ELSE mode]

\* the settings store before the extension starts
InitialSettings ==
    {[k \in SettingKeys |->
         CASE k = ASYNC_TOGGLE_SETTING  -> a
           [] k = MANUAL_TOGGLE_SETTING -> m
           [] k = ECO_MODE              -> e
           [] k = GIZMOS                -> ~e
           [] k = ASYNC_RENDERING       -> r
           [] OTHER                     -> FALSE] : a, m, e, r \in BOOLEAN}

ThrottleInit ==
    /\ loop_runner \in LoopRunners
    /\ \E S \in InitialSettings, mode \in BOOLEAN :
          /\ settings = on_startup(S, loop_runner, mode).settings
          /\ loop_manual_mode = on_startup(S, loop_runner, mode).mode
    /\ is_playing = FALSE /\ pending = <<>>
    /\ frame_count = 0 /\ waiting_for_async_reenable = FALSE
    /\ frame_update_subscription = FALSE /\ timeline_event_sub = TRUE
    /\ last_handled = "" /\ frames_since_play = 0 /\ reenabled = FALSE
    /\ play_window = FALSE /\ expired = FALSE /\ frames_waited = 0
    /\ FindIdle /\ JoinIdle /\ AsyncIdle /\ LayerIdle /\ PairIdle /\ CountIdle /\ PathIdle

extensionFields == <<frame_count, waiting_for_async_reenable, frame_update_subscription,
                     timeline_event_sub>>

\* timeline.play()
TimelinePlay ==
    /\ timeline_event_sub /\ ~is_playing /\ Len(pending) < MaxPending
    /\ is_playing' = TRUE
    /\ pending' = Append(pending, PLAY)
    /\ frames_since_play' = 0
    /\ reenabled' = FALSE /\ expired' = FALSE
    /\ UNCHANGED <<settings, loop_runner, loop_manual_mode, extensionFields, last_handled,
                   play_window, frames_waited>>

\* timeline.pause() and timeline.stop()
TimelineStopPause(type) ==
    /\ timeline_event_sub /\ Len(pending) < MaxPending
    /\ type = PAUSE => is_playing
    /\ is_playing' = FALSE
    /\ pending' = Append(pending, type)
    /\ reenabled' = FALSE /\ expired' = FALSE
    /\ play_window' = FALSE
    /\ UNCHANGED <<settings, loop_runner, loop_manual_mode, extensionFields, last_handled,
                   frames_since_play, frames_waited>>

\* any other timeline event
TimelineOther ==
    /\ timeline_event_sub /\ Len(pending) < MaxPending
    /\ pending' = Append(pending, OTHER_EVENT)
    /\ reenabled' = FALSE /\ expired' = FALSE
    /\ UNCHANGED <<settings, loop_runner, loop_manual_mode, is_playing, extensionFields,
                   last_handled, frames_since_play, play_window, frames_waited>>

\* the event stream pops its oldest event into on_stop_play
HandleEvent ==
    /\ timeline_event_sub /\ pending # <<>>
    /\ LET out == on_stop_play(Head(pending), settings, loop_runner, loop_manual_mode,
                               Counting)
       IN  /\ settings' = out.settings
           /\ loop_manual_mode' = out.mode
           /\ frame_count' = out.c.frame_count
           /\ waiting_for_async_reenable' = out.c.waiting
           /\ frame_update_subscription' = out.c.subscription
    /\ pending' = Tail(pending)
    /\ last_handled' = IF Head(pending) \in {PLAY, STOP, PAUSE} THEN Head(pending)
                       ELSE last_handled
    /\ reenabled' = FALSE /\ expired' = FALSE
    /\ play_window' = IF Head(pending) = PLAY
                      THEN is_playing /\ settings[ASYNC_TOGGLE_SETTING]
                      ELSE IF Head(pending) \in {STOP, PAUSE} THEN FALSE
                      ELSE play_window
    /\ frames_waited' = IF ~waiting_for_async_reenable /\ waiting_for_async_reenable'
                        THEN 0 ELSE frames_waited
    /\ UNCHANGED <<loop_runner, is_playing, timeline_event_sub, frames_since_play>>

\* one application update: _on_frame_update runs if it is subscribed
FrameUpdate ==
    /\ timeline_event_sub
    /\ LET out == IF frame_update_subscription
                  THEN on_frame_update(Counting, is_playing, settings)
                  ELSE [c |-> Counting, settings |-> settings, reenabled |-> FALSE]
       IN  /\ settings' = out.settings
           /\ frame_count' = out.c.frame_count
           /\ waiting_for_async_reenable' = out.c.waiting
           /\ frame_update_subscription' = out.c.subscription
           /\ reenabled' = out.reenabled
    /\ frames_since_play' = IF is_playing THEN 0
                            ELSE IF frames_since_play < frame_delay
                            THEN frames_since_play + 1 ELSE frame_delay
    /\ expired' = (waiting_for_async_reenable /\ ~waiting_for_async_reenable')
    /\ frames_waited' = IF waiting_for_async_reenable /\ frames_waited <= frame_delay
                        THEN frames_waited + 1 ELSE frames_waited
    /\ UNCHANGED <<loop_runner, loop_manual_mode, is_playing, pending, timeline_event_sub,
                   last_handled, play_window>>

\* lines 136-143
OnShutdown ==
    /\ timeline_event_sub
    /\ timeline_event_sub' = FALSE
    /\ frame_update_subscription' = FALSE
    /\ waiting_for_async_reenable' = FALSE
    /\ frame_count' = 0
    /\ pending' = <<>>
    /\ reenabled' = FALSE /\ expired' = FALSE
    /\ UNCHANGED <<settings, loop_runner, loop_manual_mode, is_playing, last_handled,
                   frames_since_play, play_window, frames_waited>>

\* the user switches the async toggle in the preferences; the extension reads
\* the setting anew each time (lines 53, 78, 115, 128)
SetAsyncToggle ==
    /\ timeline_event_sub
    /\ settings' = [settings EXCEPT ![ASYNC_TOGGLE_SETTING] = ~@]
    /\ reenabled' = FALSE /\ expired' = FALSE
    /\ play_window' = FALSE
    /\ UNCHANGED <<loop_runner, loop_manual_mode, is_playing, pending, extensionFields,
                   last_handled, frames_since_play, frames_waited>>

otherVars == <<joinVars, findVars, asyncVars, layerVars, pairVars, countVars, pathVars>>

ThrottleNext ==
    \/ TimelinePlay /\ UNCHANGED otherVars
    \/ \E type \in {STOP, PAUSE} : TimelineStopPause(type) /\ UNCHANGED otherVars
    \/ TimelineOther /\ UNCHANGED otherVars
    \/ HandleEvent /\ UNCHANGED otherVars
    \/ FrameUpdate /\ UNCHANGED otherVars
    \/ OnShutdown /\ UNCHANGED otherVars
    \/ SetAsyncToggle /\ UNCHANGED otherVars

SpecThrottle == ThrottleInit /\ [][ThrottleNext]_vars

\* the application loop dispatches an update event every frame (the
\* subscription of lines 100-104 is to that event), so frame updates keep
\* arriving as long as the extension runs
\* The extension started with the loop runner acquired, eco mode off and
\* async rendering off; both toggles are free.  Lines 68-104 read none of the
\* fields fixed here.
ThrottleFairInit ==
    /\ ThrottleInit
    /\ loop_runner = "acquired"
    /\ ~settings[ECO_MODE] /\ ~settings[ASYNC_RENDERING]

SpecThrottleFair ==
    /\ ThrottleFairInit
    /\ [][ThrottleNext]_vars
    /\ WF_vars(FrameUpdate /\ UNCHANGED otherVars)

----------------------------------------------------------------------------
(* What the claims about the throttling extension speak of *)

\* C19: the frame-delay counter re-enables async rendering only when the
\* timeline has not played during the frame_delay frame updates before the
\* re-enable; after STOP, PLAY, STOP inside one delay window there is no
\* re-enable fewer than frame_delay (10) frame updates after the timeline last
\* played.
C19_ReenableOnlyAfterQuietDelay ==
    reenabled => frames_since_play >= frame_delay

\* eco mode and the gizmos are off after PLAY and on after STOP or PAUSE
EcoAndGizmosFollow ==
    /\ last_handled = PLAY => ~settings[ECO_MODE] /\ ~settings[GIZMOS]
    /\ last_handled \in {STOP, PAUSE} => settings[ECO_MODE] /\ settings[GIZMOS]

\* the manual mode of the loop runner is on after PLAY and off after STOP or
\* PAUSE
ManualModeFollows ==
    /\ last_handled = PLAY => loop_manual_mode
    /\ last_handled \in {STOP, PAUSE} => ~loop_manual_mode

C21_AsyncOffWhilePlaying ==
    /\ [](play_window => ~settings[ASYNC_RENDERING] /\ ~settings[ASYNC_LOW_LATENCY])
    /\ [][is_playing =>
            /\ settings'[ASYNC_RENDERING] => settings[ASYNC_RENDERING]
            /\ settings'[ASYNC_LOW_LATENCY] => settings[ASYNC_LOW_LATENCY]]_vars

\* the count started by an earlier STOP has just reached the delay while the
\* timeline plays, after the PLAY event was handled: async rendering is off
C21_Witness ==
    /\ expired /\ play_window /\ is_playing
    /\ last_handled = PLAY
    /\ frames_waited = frame_delay
    /\ ~waiting_for_async_reenable
    /\ ~settings[ASYNC_RENDERING] /\ ~settings[ASYNC_LOW_LATENCY]

\* C22: in every state after on_startup, whatever the interleaving of
\* timeline events, frame updates and on_shutdown, the frame-update
\* subscription exists exactly when _waiting_for_async_reenable is true,
\* _frame_count is 0 when the extension is not waiting and lies in
\* 0..frame_delay-1 between callbacks; and a STOP or PAUSE handled while the
\* extension is already waiting leaves the count, the waiting flag and the
\* subscription as they are (a subscription is made only together with the
\* reset of the count, lines 96-104).
C22_CountingFieldsConsistent ==
    /\ [](/\ frame_update_subscription <=> waiting_for_async_reenable
          /\ ~waiting_for_async_reenable => frame_count = 0
          /\ frame_count \in 0..(frame_delay - 1))
    /\ [][/\ waiting_for_async_reenable
          /\ pending # <<>> /\ Head(pending) \in {STOP, PAUSE}
          /\ pending' = Tail(pending) /\ timeline_event_sub'
          => UNCHANGED <<frame_count, waiting_for_async_reenable,
                         frame_update_subscription>>]_vars

\* every event has been handled, the last one a STOP or PAUSE that came after
\* the timeline played while the count was already running: the count goes on
\* from where it was
C22_Witness ==
    /\ last_handled \in {STOP, PAUSE} /\ pending = <<>>
    /\ waiting_for_async_reenable /\ frame_update_subscription
    /\ frame_count > 0
    /\ frames_waited = frame_count
    /\ frames_since_play < frames_waited

\* C23: once a STOP or PAUSE has been handled with the async toggle on, the
\* extension is counting; if from then on the timeline does not play, the
\* toggle stays on, the extension is not shut down and frame updates keep
\* arriving, async rendering is eventually re-enabled.  Whenever it is
\* re-enabled, that happens at the frame_delay-th frame update since counting
\* started, both async settings are on, waiting is cleared and the
\* frame-update subscription is dropped.
C23_ReenabledAtTenthFrame ==
    /\ [](reenabled =>
            /\ expired /\ frames_waited = frame_delay
            /\ settings[ASYNC_RENDERING] /\ settings[ASYNC_LOW_LATENCY]
            /\ ~waiting_for_async_reenable /\ ~frame_update_subscription
            /\ frame_count = 0)
    /\ (/\ last_handled \in {STOP, PAUSE}
        /\ settings[ASYNC_TOGGLE_SETTING] /\ waiting_for_async_reenable
        /\ timeline_event_sub /\ ~is_playing)
         ~> (\/ reenabled
             \/ is_playing
             \/ ~settings[ASYNC_TOGGLE_SETTING]
             \/ ~timeline_event_sub)

\* the tenth frame update after a STOP or PAUSE started the count has just
\* switched async rendering back on
C23_Witness ==
    /\ reenabled /\ expired /\ frames_waited = frame_delay
    /\ last_handled \in {STOP, PAUSE} /\ ~is_playing
    /\ settings[ASYNC_TOGGLE_SETTING]
    /\ settings[ASYNC_RENDERING] /\ settings[ASYNC_LOW_LATENCY]
    /\ ~waiting_for_async_reenable /\ ~frame_update_subscription

====
